---------------------------- MODULE Spec2Model ----------------------------
(***************************************************************************)
(* udptest: a sender (upload) emits the handshake token and then pktCount  *)
(* framed datagrams of pktSize bytes; a receiver (serve) waits for the     *)
(* token, then reads, validates and counts frames until pktCount is        *)
(* reached or a read times out.                                            *)
(*                                                                         *)
(* Byte slices are sequences of numbers 0..255 (index 1 is Go's index 0).  *)
(* uint16 fields are kept modulo 2^16.  md5 is modelled as a collision-    *)
(* free digest: the digest of a byte string is the tagged byte string.     *)
(***************************************************************************)
EXTENDS Integers, Sequences, FiniteSets, TLC

\* ------------------------------------------------------------------ bounds
MaxPktSize == 8
MaxPktCount == 2

\* --------------------------------------------------------------- constants
pktNoSize == 2
pktSzSize == 2
pktHdrSize == pktNoSize + pktSzSize
pktEndSize == 2
pktInfSize == pktHdrSize + pktEndSize
pktMaxCount == 65535
Uint16 == 65536
ByteMod == 256

pktEnd == <<13, 10>>
start == <<115, 116, 97, 114, 116>>

Nil == "nil"
SenderAddr == "A"
OtherAddr == "B"
Addrs == {SenderAddr, OtherAddr}

\* ----------------------------------------------------------- slice helpers
Min(a, b) == IF a < b THEN a ELSE b

Zeros(n) == [j \in 1..n |-> 0]

\* Go's copy(dst[off:], src): min(len(dst)-off, len(src)) bytes are copied.
Copy(dst, off, src) ==
  LET n == Min(Len(dst) - off, Len(src))
  IN  [j \in 1..Len(dst) |-> IF j > off /\ j <= off + n THEN src[j - off] ELSE dst[j]]

\* binary.LittleEndian.Uint16(b[off:off+2])
LeUint16(b, off) == b[off + 1] + ByteMod * b[off + 2]

\* binary.LittleEndian.PutUint16(b[off:], v)
LePutUint16(b, off, v) ==
  [b EXCEPT ![off + 1] = v % ByteMod, ![off + 2] = (v \div ByteMod) % ByteMod]

\* bytes.Equal
BytesEqual(a, b) == Len(a) = Len(b) /\ \A j \in 1..Len(a) : a[j] = b[j]

\* md5 of a byte string, rendered in hexadecimal
Md5(b) == <<"md5", b>>

\* ------------------------------------------------------------------- state
VARIABLES
  pktSize, pktCount, useMem,   \* run configuration (flags -p, -cnt, -m)
  spc, si, spkt, bb, h,        \* upload: position, i, pkt, bb, md5 context
  sout, ssock, spanic,         \* upload: lines printed, socket, panic value
  net,                         \* datagrams the sender has written
  sent,                        \* history: the sender's writes, in order
  rpc, i, no, pkt, s,          \* serve: position, i, no, pkt, s
  rout, rsock, rpanic,         \* serve: lines printed, socket, panic value
  lastRead, reads,             \* history: the last read and its outcome, number of reads
  decoded, peer                \* history: sequence numbers readFrom returned nil for,
                               \* origin of the first of them

cfgVars == <<pktSize, pktCount, useMem>>
sndVars == <<spc, si, spkt, bb, h, sout, ssock, spanic, net, sent>>
rcvVars == <<rpc, i, no, pkt, s, rout, rsock, rpanic, lastRead, reads, decoded, peer>>
vars == <<pktSize, pktCount, useMem, spc, si, spkt, bb, h, sout, ssock, spanic, net, sent,
          rpc, i, no, pkt, s, rout, rsock, rpanic, lastRead, reads, decoded, peer>>

\* payload capacity of one frame
Cap == pktSize - pktInfSize

\* ------------------------------------------------------------------- paket
\* var pkt paket: the zero value
ZeroPaket ==
  [no |-> 0, size |-> 0, dataLo |-> 0, dataHi |-> 0,
   buf |-> <<>>, bufNil |-> TRUE, from |-> Nil]

\* p.data is a view into p.buf
Data(p) == SubSeq(p.buf, p.dataLo + 1, p.dataHi)

reset(p) ==
  [p EXCEPT !.buf = IF p.bufNil THEN Zeros(pktSize) ELSE p.buf,
            !.bufNil = FALSE,
            !.no = 0,
            !.size = 0,
            !.from = Nil]

\* ep: every error but nil and io.EOF panics
ep(err) == err \in {"nil", "eof"}

\* con.ReadFrom(buf) on a datagram d = [data, from]: the datagram is cut to
\* the buffer; a datagram longer than the buffer is cut silently or, where
\* the platform reports it, fails (tooLong).
ConnReadFrom(buf, d, tooLong) ==
  IF Len(d.data) > Len(buf) /\ tooLong
  THEN [n |-> 0, addr |-> Nil, err |-> "other", buf |-> buf]
  ELSE [n |-> Min(Len(d.data), Len(buf)), addr |-> d.from, err |-> "nil",
        buf |-> Copy(buf, 0, d.data)]

\* a failed ReadFrom
ConnReadErr(buf, err) == [n |-> 0, addr |-> Nil, err |-> err, buf |-> buf]

\* errors.Is(err, os.ErrDeadlineExceeded)
isDeadline_never(err) == FALSE
isDeadline(err) == err = "deadline"

\* len(buf)-pktInfSize != int(plSize) fails the frame
sizeOk_atLeast(buf, plSize) == Len(buf) - pktInfSize <= plSize
sizeOk(buf, plSize) == Len(buf) - pktInfSize = plSize

\* !bytes.Equal(buf[len(buf)-pktEndSize:], pktEnd) fails the frame
endOk_first(buf) == buf[Len(buf) - pktEndSize + 1] = pktEnd[1]
endOk(buf) == BytesEqual(SubSeq(buf, Len(buf) - pktEndSize + 1, Len(buf)), pktEnd)

\* p.readFrom(con), given what con.ReadFrom returned into p.buf
readFromResult(p1, r) ==
  LET buf == SubSeq(r.buf, 1, r.n)
      seqno == LeUint16(buf, 0)
      plSize == LeUint16(buf, pktNoSize)
      hi == (pktHdrSize + plSize) % Uint16
      p2 == [p1 EXCEPT !.buf = r.buf]
  IN
  IF isDeadline(r.err) THEN [res |-> "deadline", p |-> p2]
  ELSE IF ~ep(r.err) THEN [res |-> "io error", p |-> p2]
  ELSE IF p1.from # Nil /\ p1.from # r.addr
    THEN [res |-> "remote address changed", p |-> p2]
  ELSE IF Len(buf) < pktInfSize
    THEN [res |-> "to few bytes received", p |-> p2]
  ELSE IF ~sizeOk(buf, plSize)
    THEN [res |-> "expected and received packet size are not match", p |-> p2]
  ELSE IF ~endOk(buf)
    THEN [res |-> "unexpected packet end", p |-> p2]
  ELSE IF hi < pktHdrSize \/ hi > Len(r.buf)
    THEN [res |-> "slice bounds out of range", p |-> p2]
  ELSE [res |-> "ok",
        p |-> [p2 EXCEPT !.dataLo = pktHdrSize, !.dataHi = hi,
                         !.no = seqno, !.size = plSize, !.from = r.addr]]

\* p.readFrom(con): rd is what the socket hands over, a datagram or an error
readFrom(p, rd, tooLong) ==
  LET p1 == reset(p)
      r == IF rd.err = "nil"
           THEN ConnReadFrom(p1.buf, rd, tooLong)
           ELSE ConnReadErr(p1.buf, rd.err)
  IN  readFromResult(p1, r)

\* p.apply(b) with the length of the whole frame in the size field
apply_sizeOfBuf(p, b) ==
  LET p1 == IF p.no = 0 THEN reset(p) ELSE p
      size == Len(p1.buf) % Uint16
      seqno == (p1.no + 1) % Uint16
      b1 == LePutUint16(p1.buf, 0, seqno)
      b2 == LePutUint16(b1, pktNoSize, size)
      b3 == Copy(b2, pktHdrSize, b)
      b4 == Copy(b3, pktHdrSize + Len(b), pktEnd)
  IN
  IF Len(b) > pktSize - pktInfSize
  THEN [ok |-> FALSE, p |-> p1]
  ELSE [ok |-> TRUE, p |-> [p1 EXCEPT !.size = size, !.no = seqno, !.buf = b4]]

\* p.apply(b) writing the sequence number before p.no++
apply_oldNo(p, b) ==
  LET p1 == IF p.no = 0 THEN reset(p) ELSE p
      size == Len(b) % Uint16
      seqno == (p1.no + 1) % Uint16
      b1 == LePutUint16(p1.buf, 0, p1.no)
      b2 == LePutUint16(b1, pktNoSize, size)
      b3 == Copy(b2, pktHdrSize, b)
      b4 == Copy(b3, pktHdrSize + Len(b), pktEnd)
  IN
  IF Len(b) > pktSize - pktInfSize
  THEN [ok |-> FALSE, p |-> p1]
  ELSE [ok |-> TRUE, p |-> [p1 EXCEPT !.size = size, !.no = seqno, !.buf = b4]]

\* p.apply(b)
apply(p, b) ==
  LET p1 == IF p.no = 0 THEN reset(p) ELSE p
      size == Len(b) % Uint16
      seqno == (p1.no + 1) % Uint16
      b1 == LePutUint16(p1.buf, 0, seqno)
      b2 == LePutUint16(b1, pktNoSize, size)
      b3 == Copy(b2, pktHdrSize, b)
      b4 == Copy(b3, pktHdrSize + Len(b), pktEnd)
  IN
  IF Len(b) > pktSize - pktInfSize
  THEN [ok |-> FALSE, p |-> p1]
  ELSE [ok |-> TRUE, p |-> [p1 EXCEPT !.size = size, !.no = seqno, !.buf = b4]]

\* p.writeTo(w): the bytes handed to w.Write
writeTo(p) == p.buf

\* ------------------------------------------------------------------- store
\* var s store: the zero value
NilStore == [nil |-> TRUE, b |-> <<>>]

\* s.save(p) with the offset p.no in place of p.no-1
save_noMinus(st, p) ==
  LET size == (pktSize - pktInfSize) * pktCount
      s1 == IF st.nil THEN [nil |-> FALSE, b |-> Zeros(size)] ELSE st
      off == p.no * (pktSize - pktInfSize)
  IN
  IF ~useMem THEN [ok |-> TRUE, s |-> st]
  ELSE IF st.nil /\ size < 0 THEN [ok |-> FALSE, s |-> st]
  ELSE IF off > Len(s1.b) THEN [ok |-> FALSE, s |-> s1]
  ELSE [ok |-> TRUE, s |-> [s1 EXCEPT !.b = Copy(s1.b, off, Data(p))]]

\* s.save(p) without the test *s == nil: a fresh buffer at every call
save_realloc(st, p) ==
  LET size == (pktSize - pktInfSize) * pktCount
      s1 == [nil |-> FALSE, b |-> Zeros(size)]
      off == ((p.no + Uint16 - 1) % Uint16) * (pktSize - pktInfSize)
  IN
  IF ~useMem THEN [ok |-> TRUE, s |-> st]
  ELSE IF size < 0 THEN [ok |-> FALSE, s |-> st]
  ELSE IF off > Len(s1.b) THEN [ok |-> FALSE, s |-> s1]
  ELSE [ok |-> TRUE, s |-> [s1 EXCEPT !.b = Copy(s1.b, off, Data(p))]]

\* s.save(p)
save(st, p) ==
  LET size == (pktSize - pktInfSize) * pktCount
      s1 == IF st.nil THEN [nil |-> FALSE, b |-> Zeros(size)] ELSE st
      off == ((p.no + Uint16 - 1) % Uint16) * (pktSize - pktInfSize)
  IN
  IF ~useMem THEN [ok |-> TRUE, s |-> st]
  ELSE IF st.nil /\ size < 0 THEN [ok |-> FALSE, s |-> st]
  ELSE IF off > Len(s1.b) THEN [ok |-> FALSE, s |-> s1]
  ELSE [ok |-> TRUE, s |-> [s1 EXCEPT !.b = Copy(s1.b, off, Data(p))]]

\* s.checkSum()
checkSum(st) == Md5(st.b)

\* ------------------------------------------------------------------ inputs
\* bytes rand.Read may produce (a sample of 0..255)
RandBytes == {1, 2}

Payloads(n) == [1..n -> RandBytes]

\* a well-formed frame of the wire format, as a peer may put it on the wire
Frame(seqno, payload) ==
  <<seqno % ByteMod, seqno \div ByteMod,
    Len(payload) % ByteMod, Len(payload) \div ByteMod>> \o payload \o pktEnd

\* sequence numbers of the frames a peer other than upload may send
ForgedSeqs == 0..(MaxPktCount + 2)

ForgedPayload(n) == [j \in 1..n |-> 3]

\* well-formed frames of every length up to one byte more than pktSize
ForgedFrames == {Frame(q, ForgedPayload(n)) : q \in ForgedSeqs, n \in 0..(Cap + 1)}

\* frames with the terminator or the length field altered, and short ones
Malformed ==
  LET f == Frame(1, ForgedPayload(Cap))
      n == Len(f)
  IN  { [f EXCEPT ![n] = 13], [f EXCEPT ![n - 1] = 10, ![n] = 13],
        [f EXCEPT ![3] = (f[3] + 1) % ByteMod], [f EXCEPT ![4] = 1],
        SubSeq(f, 1, pktInfSize - 1), <<>> }

\* the token, cut, and followed by more bytes
Tokens == { start, SubSeq(start, 1, 4), start \o <<33>>, <<115, 116, 97, 114, 84>> }

Datagram(data, from) == [err |-> "nil", data |-> data, from |-> from]
ReadError(err) == [err |-> err, data |-> <<>>, from |-> Nil]

\* what a read of the socket can return when any host may send to it
AnyReads ==
  {Datagram(d, a) : d \in ForgedFrames \cup Tokens, a \in Addrs}
  \cup {Datagram(d, SenderAddr) : d \in Malformed}
  \cup {ReadError(e) : e \in {"deadline", "eof", "other"}}

\* what a read can return when only upload sends: any datagram written so
\* far, in any order and any number of times, or no datagram in time
NetReads ==
  {Datagram(d, SenderAddr) : d \in net}
  \cup {ReadError(e) : e \in {"deadline", "other"}}

\* whether a read into n bytes may report a datagram as too long
TooLong(rd, n) == IF rd.err = "nil" /\ Len(rd.data) > n THEN BOOLEAN ELSE {FALSE}

\* ------------------------------------------------------------------- serve
Line(t, a, b) == [t |-> t, a |-> a, b |-> b]

\* %.2f of float64(pktCount-i)/float64(pktCount)*100, in hundredths
Percent(lost, cnt) == (20000 * lost + cnt) \div (2 * cnt)

\* the deferred report with the loss one too small
reportLines_offByOne(cnt, total) ==
  <<Line("total packets received", cnt, 0)>> \o
  (IF cnt # total
   THEN <<Line("packet loss", total - cnt - 1, Percent(total - cnt - 1, total))>>
   ELSE <<>>)

\* the deferred report of serve, for i = cnt and pktCount = total
reportLines(cnt, total) ==
  <<Line("total packets received", cnt, 0)>> \o
  (IF cnt # total
   THEN <<Line("packet loss", total - cnt, Percent(total - cnt, total))>>
   ELSE <<>>)

report(cnt) == reportLines(cnt, pktCount)

\* the loop condition as i <= pktCount
loopNext_offByOne(cnt) == IF cnt <= pktCount THEN "RECEIVING" ELSE "COMPLETED"

\* the loop as a do-while: the condition is tested after the first read
loopNext_doWhile(cnt) == IF cnt < pktCount \/ cnt = 0 THEN "RECEIVING" ELSE "COMPLETED"

\* a loop without a condition
loopNext_forever(cnt) == "RECEIVING"

\* the loop condition i < pktCount
loopNext(cnt) == IF cnt < pktCount THEN "RECEIVING" ELSE "COMPLETED"

\* net.ListenPacket and the deferred con.Close
serve_listen ==
  /\ rpc = "START"
  /\ \E ok \in BOOLEAN :
       IF ok
       THEN /\ rpc' = "WAIT_HANDSHAKE"
            /\ rsock' = "open"
            /\ rout' = Append(rout, Line("waiting for incoming connection", 0, 0))
            /\ UNCHANGED rpanic
       ELSE /\ rpc' = "EXIT"
            /\ rpanic' = "listen"
            /\ UNCHANGED <<rsock, rout>>
  /\ UNCHANGED <<i, no, pkt, s, lastRead, reads, decoded, peer>>
  /\ UNCHANGED <<cfgVars, sndVars>>

\* the first read, into a buffer of len(start) bytes, without deadline
handshake(rd, tooLong) ==
  LET r == IF rd.err = "nil"
           THEN ConnReadFrom(Zeros(Len(start)), rd, tooLong)
           ELSE ConnReadErr(Zeros(Len(start)), rd.err)
  IN  IF ~ep(r.err) THEN "io error"
      ELSE IF ~BytesEqual(r.buf, start) THEN "unexpected first bytes"
      ELSE "ok"

serve_handshake(Reads) ==
  /\ rpc = "WAIT_HANDSHAKE"
  /\ \E rd \in Reads : \E tooLong \in TooLong(rd, Len(start)) :
     /\ rd.err # "deadline"
     /\ LET res == handshake(rd, tooLong)
        IN  /\ lastRead' = [kind |-> "handshake", rd |-> rd, res |-> res]
            /\ reads' = reads + 1
            /\ IF res = "ok"
               THEN /\ rout' = Append(rout, Line("received start command", 0, 0))
                    /\ i' = 0
                    /\ rpc' = loopNext(0)
                    /\ UNCHANGED rpanic
               ELSE /\ rpc' = "PANIC"
                    /\ rpanic' = res
                    /\ UNCHANGED <<rout, i>>
  /\ UNCHANGED <<no, pkt, s, rsock, decoded, peer>>
  /\ UNCHANGED <<cfgVars, sndVars>>

\* one iteration of the receive loop
serve_read(Reads) ==
  /\ rpc = "RECEIVING"
  /\ \E rd \in Reads : \E tooLong \in TooLong(rd, pktSize) :
     LET r == readFrom(pkt, rd, tooLong)
            sv == save(s, r.p)
        IN  /\ lastRead' = [kind |-> "frame", rd |-> rd, res |-> r.res]
            /\ reads' = reads + 1
            /\ pkt' = r.p
            /\ IF r.res = "deadline"
               THEN /\ rpc' = "TIMED_OUT"
                    /\ UNCHANGED <<i, no, s, rout, rpanic, decoded, peer>>
               ELSE IF r.res # "ok"
               THEN /\ rpc' = "PANIC"
                    /\ rpanic' = r.res
                    /\ UNCHANGED <<i, no, s, rout, decoded, peer>>
               ELSE /\ decoded' = Append(decoded, r.p.no)
                    /\ peer' = IF decoded = <<>> THEN r.p.from ELSE peer
                    /\ rout' = IF no >= r.p.no
                               THEN Append(rout, Line("wrong packet order", no, r.p.no))
                               ELSE rout
                    /\ no' = r.p.no
                    /\ s' = sv.s
                    /\ IF sv.ok
                       THEN /\ i' = i + 1
                            /\ rpc' = loopNext(i + 1)
                            /\ UNCHANGED rpanic
                       ELSE /\ rpc' = "PANIC"
                            /\ rpanic' = "save: slice bounds out of range"
                            /\ UNCHANGED i
  /\ UNCHANGED rsock
  /\ UNCHANGED <<cfgVars, sndVars>>

\* the end of serve without the deferred con.Close
serve_report_noClose ==
  /\ rpc \in {"COMPLETED", "TIMED_OUT", "PANIC"}
  /\ rout' = rout \o
       (IF rpc = "COMPLETED" THEN <<Line("checksum", checkSum(s), 0)>> ELSE <<>>)
       \o report(i)
  /\ rpc' = "REPORTED"
  /\ UNCHANGED <<i, no, pkt, s, rsock, rpanic, lastRead, reads, decoded, peer>>
  /\ UNCHANGED <<cfgVars, sndVars>>

\* the end of serve: the checksum line after a completed loop, then the
\* deferred functions, the report and con.Close
serve_report ==
  /\ rpc \in {"COMPLETED", "TIMED_OUT", "PANIC"}
  /\ rout' = rout \o
       (IF rpc = "COMPLETED" THEN <<Line("checksum", checkSum(s), 0)>> ELSE <<>>)
       \o report(i)
  /\ rsock' = "closed"
  /\ rpc' = "REPORTED"
  /\ UNCHANGED <<i, no, pkt, s, rpanic, lastRead, reads, decoded, peer>>
  /\ UNCHANGED <<cfgVars, sndVars>>

\* ------------------------------------------------------------------ upload
\* net.Dial, the deferred con.Close, md5.New and make(bb)
upload_dial ==
  /\ spc = "START"
  /\ \E ok \in BOOLEAN :
       IF ok
       THEN /\ spc' = "HANDSHAKE"
            /\ ssock' = "open"
            /\ h' = <<>>
            /\ bb' = Zeros(pktSize - pktInfSize)
            /\ UNCHANGED spanic
       ELSE /\ spc' = "EXIT"
            /\ spanic' = "dial"
            /\ UNCHANGED <<ssock, h, bb>>
  /\ UNCHANGED <<si, spkt, sout, net, sent>>
  /\ UNCHANGED <<cfgVars, rcvVars>>

\* the loop condition as i <= pktCount
sendNext_offByOne(cnt) == IF cnt <= pktCount THEN "SENDING" ELSE "DONE"

\* the loop condition i < pktCount
sendNext(cnt) == IF cnt < pktCount THEN "SENDING" ELSE "DONE"

\* con.Write(start)
upload_start ==
  /\ spc = "HANDSHAKE"
  /\ \E ok \in BOOLEAN :
       IF ok
       THEN /\ net' = net \cup {start}
            /\ sent' = Append(sent, start)
            /\ si' = 0
            /\ spc' = sendNext(0)
            /\ UNCHANGED spanic
       ELSE /\ spc' = "PANIC"
            /\ spanic' = "write start"
            /\ UNCHANGED <<net, sent, si>>
  /\ UNCHANGED <<spkt, bb, h, sout, ssock>>
  /\ UNCHANGED <<cfgVars, rcvVars>>

\* one iteration of the send loop: tick, rand.Read, h.Write, apply, writeTo
upload_send(b, fail) ==
  /\ spc = "SENDING"
  /\ IF fail = "rand"
     THEN /\ spc' = "PANIC"
          /\ spanic' = "rand"
          /\ UNCHANGED <<bb, h, spkt, net, sent, si>>
     ELSE LET a == apply(spkt, b)
          IN  /\ bb' = b
              /\ h' = h \o b
              /\ spkt' = a.p
              /\ IF a.ok /\ fail = "none"
                 THEN /\ net' = net \cup {writeTo(a.p)}
                      /\ sent' = Append(sent, writeTo(a.p))
                      /\ si' = si + 1
                      /\ spc' = sendNext(si + 1)
                      /\ UNCHANGED spanic
                 ELSE /\ spc' = "PANIC"
                      /\ spanic' = IF a.ok THEN "write" ELSE "payload to long"
                      /\ UNCHANGED <<net, sent, si>>
  /\ UNCHANGED <<sout, ssock>>
  /\ UNCHANGED <<cfgVars, rcvVars>>

\* the end of upload: the digest line after a completed loop, then the
\* deferred functions: the line registered once the token is written, and
\* con.Close
upload_report ==
  /\ spc \in {"DONE", "PANIC"}
  /\ sout' = sout \o
       (IF spc = "DONE" THEN <<Line("checksum", Md5(h), 0)>> ELSE <<>>)
       \o (IF spanic = "write start" THEN <<>>
           ELSE <<Line("total packets sent", si, 0)>>)
  /\ ssock' = "closed"
  /\ spc' = "REPORTED"
  /\ UNCHANGED <<si, spkt, bb, h, spanic, net, sent>>
  /\ UNCHANGED <<cfgVars, rcvVars>>

\* ---------------------------------------------------------- specifications
\* the flags: -p from the framing overhead up, -cnt, -m
Config ==
  /\ pktSize \in pktInfSize..MaxPktSize
  /\ pktCount \in 0..MaxPktCount
  /\ useMem \in BOOLEAN

Start ==
  /\ spc = "START" /\ si = 0 /\ spkt = ZeroPaket /\ bb = <<>> /\ h = <<>>
  /\ sout = <<>> /\ ssock = "none" /\ spanic = "none" /\ net = {} /\ sent = <<>>
  /\ rpc = "START" /\ i = 0 /\ no = 0 /\ pkt = ZeroPaket /\ s = NilStore
  /\ rout = <<>> /\ rsock = "none" /\ rpanic = "none"
  /\ lastRead = [kind |-> "none", rd |-> ReadError("nil"), res |-> "none"]
  /\ reads = 0 /\ decoded = <<>> /\ peer = Nil

Init == Config /\ Start

\* upload and serve over a transport that loses, reorders and duplicates
Next ==
  \/ upload_dial
  \/ upload_start
  \/ \E b \in Payloads(Cap), fail \in {"none", "rand", "write"} : upload_send(b, fail)
  \/ upload_report
  \/ serve_listen
  \/ serve_handshake(NetReads)
  \/ serve_read(NetReads)
  \/ serve_report

Spec == Init /\ [][Next]_vars

\* serve alone, on a socket any host may send anything to
RecvNext ==
  \/ serve_listen
  \/ serve_handshake(AnyReads)
  \/ serve_read(AnyReads)
  \/ serve_report

RecvSpec == Init /\ [][RecvNext]_vars

\* serve alone with the scheduling the code gives it: a frame read has a
\* deadline (SetReadDeadline in readFrom), so it returns, and the deferred
\* functions run when serve returns or panics; the handshake read has no
\* deadline and ListenPacket may never be reached by a datagram, so neither
\* is forced to happen
RecvFairSpec ==
  /\ Init
  /\ [][RecvNext]_vars
  /\ WF_vars(serve_read(AnyReads))
  /\ WF_vars(serve_report)

\* -------------------------------------------------------------- the codec
\* rounds of apply, writeTo, readFrom
MaxRounds == 2

\* values of p.no before an apply
SeqSamples == {0, 1, 2, 255, 256, 65534, 65535}

\* the sending paket after n frames: its buffer holds the n-th frame
PaketAt(n) ==
  IF n = 0 THEN ZeroPaket
  ELSE apply([ZeroPaket EXCEPT !.no = n - 1, !.buf = Zeros(pktSize), !.bufNil = FALSE],
             Zeros(Cap)).p

\* payloads of every length up to one byte more than the capacity
CodecPayloads == UNION {Payloads(n) : n \in 0..(Cap + 1)}

CodecInit ==
  /\ Config
  /\ Start
  /\ pktCount = 0 /\ useMem = FALSE

codec_start ==
  /\ spc = "START"
  /\ \E n \in SeqSamples : spkt' = PaketAt(n) /\ si' = n
  /\ spc' = "APPLY"
  /\ UNCHANGED <<bb, h, sout, ssock, spanic, net, sent>>
  /\ UNCHANGED <<cfgVars, rcvVars>>

\* pkt.apply(b)
codec_apply ==
  /\ spc = "APPLY"
  /\ \E b \in CodecPayloads :
       LET a == apply(spkt, b)
       IN  /\ bb' = b
           /\ spkt' = a.p
           /\ IF a.ok
              THEN spc' = "WRITE" /\ si' = si + 1 /\ UNCHANGED spanic
              ELSE spc' = "PANIC" /\ spanic' = "payload to long" /\ UNCHANGED si
  /\ UNCHANGED <<h, sout, ssock, net, sent>>
  /\ UNCHANGED <<cfgVars, rcvVars>>

\* pkt.writeTo(con)
codec_writeTo ==
  /\ spc = "WRITE"
  /\ net' = {writeTo(spkt)}
  /\ sent' = Append(sent, writeTo(spkt))
  /\ spc' = "READ"
  /\ UNCHANGED <<si, spkt, bb, h, sout, ssock, spanic>>
  /\ UNCHANGED <<cfgVars, rcvVars>>

\* pkt.readFrom(con) on the datagram written
codec_readFrom ==
  /\ spc = "READ"
  /\ \E d \in net :
       LET rd == Datagram(d, SenderAddr)
           r == readFrom(pkt, rd, FALSE)
       IN  /\ pkt' = r.p
           /\ lastRead' = [kind |-> "frame", rd |-> rd, res |-> r.res]
           /\ reads' = reads + 1
           /\ rpanic' = IF r.res = "ok" THEN rpanic ELSE r.res
           /\ spc' = IF r.res = "ok" /\ reads + 1 < MaxRounds THEN "APPLY" ELSE "DONE"
  /\ UNCHANGED <<si, spkt, bb, h, sout, ssock, spanic, net, sent>>
  /\ UNCHANGED <<cfgVars, rpc, i, no, s, rout, rsock, decoded, peer>>

CodecNext == codec_start \/ codec_apply \/ codec_writeTo \/ codec_readFrom

CodecSpec == CodecInit /\ [][CodecNext]_vars

\* ------------------------------------------------------------------ claims
\* C1: round trip: for every sequence number in 1..65535 and every payload
\* of length 0..pktSize-6, the datagram written by apply and writeTo is
\* decoded by readFrom to the same sequence number and the same payload.
C1_RoundTrip ==
  (spc \in {"APPLY", "DONE"} /\ lastRead.kind = "frame" /\ spkt.no \in 1..65535)
    => /\ lastRead.res = "ok"
       /\ pkt.no = spkt.no
       /\ Data(pkt) = bb

\* the last read of serve was a frame read that delivered datagram d
FrameRead(d) ==
  lastRead.kind = "frame" /\ lastRead.rd.err = "nil" /\ lastRead.rd.data = d

\* the three conditions of the wire format on a datagram d
LongEnough(d) == Len(d) >= 6
LengthMatches(d) == d[3] + 256 * d[4] = Len(d) - 6
EndMatches(d) == d[Len(d) - 1] = 13 /\ d[Len(d)] = 10
WellFormed(d) == LongEnough(d) /\ LengthMatches(d) /\ EndMatches(d)

\* C2: readFrom accepts a datagram of n <= pktSize bytes if and only if
\* n >= 6, the little-endian value at offset 2..4 is n-6 and the last two
\* bytes are the terminator; it then returns the little-endian value at
\* offset 0..2 as the sequence number and bytes 4..n-2 as the payload.
C2_DecodeAccepts ==
  \A d \in {lastRead.rd.data} :
    (FrameRead(d) /\ Len(d) <= pktSize)
      => /\ (lastRead.res = "ok") <=> WellFormed(d)
         /\ lastRead.res = "ok"
              => /\ pkt.no = d[1] + 256 * d[2]
                 /\ Data(pkt) = SubSeq(d, 5, Len(d) - 2)
         /\ ~LongEnough(d) => lastRead.res = "to few bytes received"

\* C2 witness: a frame shorter than pktSize with a payload was accepted, and
\* its sequence number needs both bytes of the field
C2_Witness ==
  /\ lastRead.kind = "frame" /\ lastRead.res = "ok"
  /\ Len(lastRead.rd.data) = 7 /\ pktSize = 8
  /\ Data(pkt) = <<3>> /\ pkt.no = 2

\* C3: a malformed frame read in RECEIVING is fatal: the run aborts at that
\* read, no read follows, and i, no and the store keep their values.
C3_FramingFatal ==
  [][ /\ (rpc = "RECEIVING" /\ reads' # reads /\ lastRead'.rd.err = "nil"
          /\ Len(lastRead'.rd.data) <= pktSize /\ ~WellFormed(lastRead'.rd.data))
        => (rpc' = "PANIC" /\ rpanic' # "none" /\ i' = i /\ no' = no /\ s' = s)
      /\ rpanic # "none"
        => (reads' = reads /\ i' = i /\ no' = no /\ s' = s
            /\ rpanic' = rpanic /\ rpc' = "REPORTED")
    ]_vars

\* C3 witness: after a counted and stored frame, a frame with an altered
\* terminator aborted the run
C3_Witness ==
  /\ rpc = "PANIC" /\ rpanic = "unexpected packet end"
  /\ lastRead.kind = "frame" /\ ~EndMatches(lastRead.rd.data)
  /\ i = 1 /\ no = 1 /\ ~s.nil /\ reads = 3

\* C4: whatever datagram other than exactly the 5 bytes of the token is
\* delivered to the first read, serve aborts before RECEIVING with i = 0.
C4_HandshakeGate ==
  (lastRead.kind = "handshake" /\ lastRead.rd.data # start)
    => (rpanic # "none" /\ rpc \in {"PANIC", "REPORTED"} /\ i = 0)

\* C5: a frame read whose origin differs from the origin of the first
\* frame read of the run aborts serve, and the frame is not counted.
C5_SinglePeer ==
  (lastRead.kind = "frame" /\ lastRead.rd.err = "nil"
   /\ peer # Nil /\ lastRead.rd.from # peer)
    => (rpanic # "none" /\ rpc \in {"PANIC", "REPORTED"} /\ i < reads - 1)

\* the "wrong packet order" lines a sequence d of sequence numbers calls for
RECURSIVE ExpectedOrderLines(_)
ExpectedOrderLines(d) ==
  IF d = <<>> THEN <<>>
  ELSE LET n == Len(d)
           prev == IF n = 1 THEN 0 ELSE d[n - 1]
       IN  ExpectedOrderLines(SubSeq(d, 1, n - 1)) \o
           (IF d[n] > prev THEN <<>> ELSE <<Line("wrong packet order", prev, d[n])>>)

IsOrderLine(l) == l.t = "wrong packet order"

\* the frame just decoded lies in the store at its offset
StoredLast ==
  \/ Data(pkt) = <<>>
  \/ /\ ~s.nil /\ no >= 1
     /\ SubSeq(s.b, (no - 1) * Cap + 1, (no - 1) * Cap + Len(Data(pkt))) = Data(pkt)

\* C6: an ordering anomaly is reported for an accepted frame exactly when its
\* sequence number is not greater than that of the preceding accepted frame
\* (0 before the first); the anomalous frame is still counted, becomes the
\* last-seen value and is stored.
C6_Tracker ==
  /\ SelectSeq(rout, IsOrderLine) = ExpectedOrderLines(decoded)
  /\ (decoded # <<>> /\ lastRead.res = "ok"
      /\ decoded[Len(decoded)] <= (IF Len(decoded) = 1 THEN 0 ELSE decoded[Len(decoded) - 1]))
       => /\ i = Len(decoded)
          /\ no = decoded[Len(decoded)]
          /\ useMem => StoredLast

\* the part of C6 about the anomaly lines alone
C6_OrderLinesOnly == SelectSeq(rout, IsOrderLine) = ExpectedOrderLines(decoded)

\* frames accepted: decoded, observed and stored
Accepted ==
  Len(decoded) - (IF rpanic = "save: slice bounds out of range" THEN 1 ELSE 0)

IsReportLine(l) == l.t \in {"total packets received", "packet loss"}

C8_TimeoutGraceful ==
  [][ /\ (rpc = "RECEIVING" /\ reads' # reads /\ lastRead'.rd.err = "deadline")
        => (rpc' = "TIMED_OUT" /\ rpanic' = "none" /\ i' = i /\ rout' = rout
            /\ decoded' = decoded)
      /\ (rpc \in {"WAIT_HANDSHAKE", "RECEIVING"} /\ reads' # reads
          /\ lastRead'.rd.err \notin {"nil", "deadline"})
        => (rpc' = "PANIC" /\ rpanic' # "none" /\ i' = i)
      /\ rpc = "TIMED_OUT"
        => (rpc' = "REPORTED" /\ reads' = reads /\ rpanic' = "none"
            /\ rout' = rout \o reportLines(Len(decoded), pktCount))
      /\ rpc \notin {"WAIT_HANDSHAKE", "RECEIVING"} => reads' = reads
    ]_vars

\* C8 witness: the loop ended by a deadline after one frame of two
C8_Witness ==
  /\ rpc = "TIMED_OUT" /\ lastRead.rd.err = "deadline" /\ rpanic = "none"
  /\ i = 1 /\ pktCount = 2 /\ reads = 3

\* every frame 1..pktCount was decoded exactly once
EachOnce ==
  /\ Len(decoded) = pktCount
  /\ {decoded[k] : k \in 1..Len(decoded)} = 1..pktCount

\* C9: with buffering, after the token and then every frame of upload exactly
\* once in any order, at COMPLETED the store equals the payloads of upload in
\* generation order, so both digests are equal.
C9_Integrity ==
  (rpc \in {"COMPLETED", "REPORTED"} /\ rpanic = "none" /\ i = pktCount
   /\ useMem /\ EachOnce)
    => /\ s.b = h
       /\ checkSum(s) = Md5(h)
       /\ rpc = "REPORTED"
            => \E k \in 1..Len(rout) : rout[k].t = "checksum" /\ rout[k].a = Md5(h)
       /\ (spc = "REPORTED" /\ spanic = "none")
            => \E k \in 1..Len(sout) : sout[k].t = "checksum" /\ sout[k].a = checkSum(s)

\* C9 witness: two frames with different payloads of two bytes, delivered in
\* reverse order, and both sides have reported
C9_Witness ==
  /\ rpc = "REPORTED" /\ spc = "REPORTED" /\ useMem /\ rpanic = "none"
  /\ pktCount = 2 /\ pktSize = 8 /\ decoded = <<2, 1>>
  /\ s.b = h /\ SubSeq(h, 1, 2) # SubSeq(h, 3, 4)

\* C10: with buffering, storing an accepted frame with sequence number k in
\* 1..pktCount and a payload of L bytes writes the payload to bytes
\* [(k-1)*Cap, (k-1)*Cap+L) of the store and leaves every other byte as it
\* was; storing it again changes nothing; the store has Cap*pktCount bytes.
C10_StoreFrame ==
  [][ /\ (rpc = "RECEIVING" /\ reads' # reads /\ lastRead'.res = "ok"
          /\ useMem /\ pkt'.no \in 1..pktCount)
        => LET k == pkt'.no
               d == Data(pkt')
               before == IF s.nil THEN Zeros(Cap * pktCount) ELSE s.b
           IN  /\ ~s'.nil
               /\ rpanic' = "none"
               /\ Len(s'.b) = Cap * pktCount
               /\ \A j \in 1..Len(s'.b) :
                    s'.b[j] = IF j > (k - 1) * Cap /\ j <= (k - 1) * Cap + Len(d)
                              THEN d[j - (k - 1) * Cap]
                              ELSE before[j]
               /\ save(s', pkt') = [ok |-> TRUE, s |-> s']
      /\ ~s'.nil => (useMem /\ Len(s'.b) = Cap * pktCount)
    ]_vars

\* C10 witness: a frame with sequence number 2 and one byte of payload is
\* stored at offset 2 of a store of 4 bytes that held frame 1 before
C10_Witness ==
  /\ useMem /\ pktSize = 8 /\ pktCount = 2 /\ decoded = <<1, 2>>
  /\ lastRead.res = "ok" /\ Len(Data(pkt)) = 1
  /\ s.b = <<3, 3, 3, 0>>

\* -------------------------------------------------------------------- C11
HasChecksumLine(out) == \E k \in 1..Len(out) : out[k].t = "checksum"

\* C11: with buffering enabled, every run that reaches REPORTED from COMPLETED
\* or from TIMED_OUT has printed the digest of the reconstruction buffer
\* together with the received count.
C11_DigestReported ==
  (rpc = "REPORTED" /\ useMem /\ rpanic = "none")
    => /\ \E k \in 1..Len(rout) : rout[k].t = "checksum" /\ rout[k].a = checkSum(s)
       /\ \E k \in 1..Len(rout) : rout[k].t = "total packets received" /\ rout[k].a = i

\* -------------------------------------------------------------------- C12
\* C12: with buffering disabled no digest line is printed in any state and
\* the reconstruction buffer is never allocated.
C12_NoDigestWithoutBuffer ==
  ~useMem => (~HasChecksumLine(rout) /\ s.nil)

\* -------------------------------------------------------------------- C13
\* sequence number field of a frame
SeqOf(d) == LeUint16(d, 0)

\* C13: the i-th frame the sender builds and writes carries the sequence
\* number i mod 2^16: up to the 65535th frame the numbers are 1, 2, ... each
\* one more than the one before and none 0; the 65536th carries 0 and the
\* 65537th carries 1 again.
C13_SeqNumbering ==
  /\ spkt.no = si % Uint16
  /\ spc \in {"WRITE", "READ"} => SeqOf(writeTo(spkt)) = si % Uint16
  /\ spc = "READ" => SeqOf(sent[Len(sent)]) = si % Uint16
  /\ (spc = "READ" /\ si <= pktMaxCount)
       => /\ SeqOf(sent[Len(sent)]) = si
          /\ SeqOf(sent[Len(sent)]) # 0
          /\ Len(sent) > 1 => SeqOf(sent[Len(sent)]) = SeqOf(sent[Len(sent) - 1]) + 1

C13_Witness ==
  /\ spc = "READ" /\ si = Uint16 + 1 /\ Len(sent) = 2
  /\ SeqOf(sent[1]) = 0 /\ SeqOf(sent[2]) = 1

\* -------------------------------------------------------------------- C14
\* the k-th payload fed to the digest
FedPayload(k) == SubSeq(h, (k - 1) * Cap + 1, k * Cap)

\* C14: the sender writes the token once, first, and without waiting for the
\* receiver; every write after it is a frame, the k-th frame carries the k-th
\* payload fed to the digest, which was fed before the frame was written; a
\* run in which no write fails writes pktCount frames and reports pktCount
\* packets sent.
C14_SenderOrder ==
  /\ spc \in {"START", "HANDSHAKE", "EXIT"} => sent = <<>>
  /\ spc = "HANDSHAKE" => ENABLED upload_start
  /\ sent # <<>> => sent[1] = start
  /\ \A k \in 1..(Len(sent) - 1) :
       /\ sent[k + 1] # start
       /\ k * Cap <= Len(h)
       /\ sent[k + 1] = Frame(k, FedPayload(k))
  /\ spc \in {"SENDING", "DONE"} => Len(sent) = si + 1 /\ Len(h) = si * Cap
  /\ Len(h) \in {(Len(sent) - 1) * Cap, Len(sent) * Cap}
  /\ (spc = "REPORTED" /\ spanic = "none")
       => /\ Len(sent) = pktCount + 1
          /\ Len(h) = pktCount * Cap
          /\ \E k \in 1..Len(sout) :
               sout[k].t = "total packets sent" /\ sout[k].a = pktCount

C14_Witness ==
  /\ spc = "REPORTED" /\ spanic = "none" /\ pktCount = MaxPktCount /\ Cap = 2
  /\ Len(sent) = pktCount + 1 /\ rpc = "START"
  /\ sent[2] = Frame(1, <<1, 2>>) /\ sent[3] = Frame(2, <<2, 1>>)

\* -------------------------------------------------------------------- C15
\* the frames upload has written
SentFrames == {sent[k] : k \in 2..Len(sent)}

\* C15: every frame the sender writes is pktSize bytes long, declares a
\* payload of pktSize - 6 bytes and ends in the terminator, so a receiver
\* with the same pktSize decodes it without error: readFrom returns nil for
\* it on a fresh paket, and every frame read of serve that returns one of
\* the sender's datagrams returns nil.
C15_SentFramesDecode ==
  /\ \A d \in SentFrames :
       /\ Len(d) = pktSize
       /\ d[3] + 256 * d[4] = pktSize - 6
       /\ d[Len(d) - 1] = 13 /\ d[Len(d)] = 10
       /\ readFrom(ZeroPaket, Datagram(d, SenderAddr), FALSE).res = "ok"
       /\ Data(readFrom(ZeroPaket, Datagram(d, SenderAddr), FALSE).p)
            = SubSeq(d, 5, Len(d) - 2)
  /\ (lastRead.kind = "frame" /\ lastRead.rd.err = "nil"
        /\ lastRead.rd.data \in SentFrames) => lastRead.res = "ok"

C15_Witness ==
  /\ lastRead.kind = "frame" /\ lastRead.res = "ok" /\ pktSize = 8
  /\ lastRead.rd.data \in SentFrames
  /\ lastRead.rd.data = Frame(2, <<2, 2>>)

\* -------------------------------------------------------------------- C16
\* C16: once the handshake is accepted the receiver always reaches REPORTED
\* (after COMPLETED, TIMED_OUT or an abort), having issued at most pktCount
\* frame reads; it leaves WAIT_HANDSHAKE only by a read that returned, and
\* that read never returns a timeout, so with no datagram and no I/O failure
\* it stays there.
C16_Terminates ==
  /\ (rpc = "RECEIVING") ~> (rpc = "REPORTED")
  /\ [](reads <= pktCount + 1)
  /\ [][(rpc = "WAIT_HANDSHAKE" /\ rpc' # "WAIT_HANDSHAKE")
          => /\ reads' = reads + 1
             /\ lastRead'.kind = "handshake"
             /\ lastRead'.res # "deadline"]_vars

C16_Witness ==
  /\ rpc = "REPORTED" /\ pktCount = MaxPktCount /\ reads = pktCount + 1
  /\ lastRead.kind = "frame" /\ lastRead.res = "deadline"
  /\ i = pktCount - 1

\* -------------------------------------------------------------------- C17
\* C17: on both sides the socket is open from the moment it is opened until
\* the loop is left, and closed once the run has ended, whether the loop
\* completed, timed out or panicked; a run that ended with an open socket
\* does not exist, and a run whose listen or dial failed never had one.
C17_SocketReleased ==
  /\ rpc \in {"WAIT_HANDSHAKE", "RECEIVING", "COMPLETED", "TIMED_OUT", "PANIC"}
       => rsock = "open"
  /\ rpc = "REPORTED" => rsock = "closed"
  /\ rpc \in {"START", "EXIT"} => rsock = "none"
  /\ spc \in {"HANDSHAKE", "SENDING", "DONE", "PANIC"} => ssock = "open"
  /\ spc = "REPORTED" => ssock = "closed"
  /\ spc \in {"START", "EXIT"} => ssock = "none"
  /\ ~ENABLED Next => (rsock # "open" /\ ssock # "open")

C17_Witness ==
  /\ rpc = "REPORTED" /\ rpanic \notin {"none", "listen"} /\ rsock = "closed"
  /\ spc = "REPORTED" /\ spanic = "write" /\ ssock = "closed"

\* -------------------------------------------------------------------- C18
\* C18: a frame that readFrom accepted never aborts the receiver: the only
\* panics in the loop are a framing error, a peer change and an I/O failure
\* other than a timeout, and after an accepted frame there is none.
C18_StoreNeverFails ==
  /\ (lastRead.kind = "frame" /\ lastRead.res = "ok") => rpanic = "none"
  /\ rpanic # "save: slice bounds out of range"

\* -------------------------------------------------------------------- C19
\* the sequence numbers accepted so far
DecodedSet == {decoded[k] : k \in 1..Len(decoded)}

NoDuplicate == \A j, k \in 1..Len(decoded) : decoded[j] = decoded[k] => j = k

Finished == rpc = "COMPLETED" \/ (rpc = "REPORTED" /\ rpanic = "none" /\ i = pktCount)

\* C19 as stated: a receiver that completed with received = pktCount has
\* accepted every sequence number 1..pktCount at least once, over a
\* transport that loses, reorders and duplicates.
C19_ZeroLossAllArrived ==
  Finished => (1..pktCount) \subseteq DecodedSet

\* C19 amended: a receiver that completed with received = pktCount has
\* accepted pktCount frames; if no datagram was accepted twice, these are
\* the sequence numbers 1..pktCount, each once.
C19_ZeroLossNoDuplicates ==
  Finished
    => /\ Len(decoded) = pktCount
       /\ NoDuplicate => DecodedSet = 1..pktCount

C19_Witness ==
  /\ rpc = "COMPLETED" /\ ~useMem /\ pktCount = MaxPktCount
  /\ NoDuplicate /\ decoded[1] = pktCount

\* -------------------------------------------------------------------- C20
\* frame reads issued so far
FrameReads == IF rpc \in {"START", "WAIT_HANDSHAKE", "EXIT"} THEN 0 ELSE reads - 1

\* C20: the received count is the number of frames decoded, observed and
\* stored since the handshake; it never exceeds pktCount nor the number of
\* frame reads; serve is in the loop, about to read a frame, only while the
\* count is below pktCount; nothing is counted before the handshake is
\* accepted or when it is refused.
C20_CountInvariant ==
  /\ i = Accepted
  /\ i <= pktCount
  /\ i <= FrameReads /\ FrameReads <= pktCount
  /\ rpc = "RECEIVING" => i < pktCount
  /\ rpc \in {"START", "WAIT_HANDSHAKE", "EXIT"} => (i = 0 /\ decoded = <<>>)
  /\ (lastRead.kind = "handshake" /\ lastRead.res # "ok") => (i = 0 /\ decoded = <<>>)

C20_Witness ==
  /\ rpc = "REPORTED" /\ i = pktCount /\ pktCount = MaxPktCount
  /\ decoded[1] = decoded[2] /\ FrameReads = pktCount /\ useMem

=============================================================================
